---------------------------- MODULE Spec2Model ----------------------------
(***************************************************************************)
(* The generic repository CRUD[T] of backend/app/crud.py over one SQLModel *)
(* session, bound to the Item entity the tests use, and the module's       *)
(* helper functions (create_user, update_user, get_user_by_email,          *)
(* authenticate, create_item) on that same session.                        *)
(*                                                                         *)
(* The relational store is a sequence of rows in the order an unordered    *)
(* scan returns them (insertion order; an UPDATE rewrites a row in place). *)
(* The session keeps, for every entity object the caller still holds, the  *)
(* attributes the object has loaded and the attribute the caller wrote     *)
(* that no commit has stored yet.  Every statement the session executes    *)
(* flushes those writes first, so the methods work on the table with the   *)
(* writes applied (View); a commit stores them and expires every object;   *)
(* a failed flush rolls them back.                                         *)
(* Every method is one action; the method body is a pure operator over     *)
(* (state, arguments) that yields the new state and what the call returned *)
(* or raised.                                                              *)
(***************************************************************************)
EXTENDS Integers, Sequences, FiniteSets

(* ------------------------------ bounds -------------------------------- *)

\* Most rows the store holds, and the number of distinct identities.
MaxRows == 3
\* Largest offset a caller passes to select.
MaxSkip == 2
\* Largest explicit row cap a caller passes to select.
MaxLimit == 2
\* Most entity objects the caller holds on to at a time.
MaxHeld == 1

(* ----------------------------- constants ------------------------------ *)

\* select's default offset and default row cap.
DefaultSkip == 0
DefaultLimit == 100

(* ------------------------------- values ------------------------------- *)

\* Python's None: an unset field, an omitted argument, "no row".
None == "None"

IdPool == <<"u1", "u2", "u3", "u4", "u5", "u6">>
Ids == {IdPool[i] : i \in 1..MaxRows}

\* The entity's field set: the identity field (the primary key) and the data
\* fields. description stands for the nullable field that
\* test_update_object_with_none_field leaves unset.
Fields == {"id", "title", "description", "owner_id"}
DataFields == Fields \ {"id"}

\* Attributes the class bound to T has that are no field, and what getattr
\* yields for them: __name__ is the name of the class, model_dump a function
\* (equal to nothing a filter holds).
ClassAttrs == {"__name__", "model_dump"}
ClassAttr(key) == IF key = "__name__" THEN "Item" ELSE "<function>"

\* The data an entity value carries (description is the nullable field).
EntityData ==
    { [title |-> "A", description |-> "d",  owner_id |-> "k1"],
      [title |-> "B", description |-> "d",  owner_id |-> "k1"],
      [title |-> "A", description |-> None, owner_id |-> "k2"] }

Item(id, data) ==
    [id |-> id, title |-> data.title, description |-> data.description,
     owner_id |-> data.owner_id]

\* New entities a caller can pass: built without an id (None: the caller
\* chose none), as the tests build them, or with an id the caller chose.
Entities == { Item(i, d) : i \in Ids \cup {None}, d \in EntityData }

\* The attributes of a new entity as update's model_dump finds them. Item's
\* identity is a uuid that an object built without an id is given when it is
\* built: newid, the identity of no row.
WithDefaultId(entity, newid) ==
    IF entity.id = None THEN [entity EXCEPT !.id = newid] ELSE entity

\* The titles a caller writes on an object it holds (test_update_object).
Titles == { d.title : d \in EntityData }

\* What create_item is given: the item's own fields and its owner.
ItemIn(data) == [title |-> data.title, description |-> data.description]

\* Users: the e-mail address is unique among the stored users.
Emails == {"a@x"}
LookupEmails == Emails \cup {"b@x"}
Passwords == {"p", "q"}
\* A field of a UserUpdate the caller did not set.
Unset == "Unset"
UserCreates == [email : Emails, password : Passwords]
UserUpdates == [email : Emails \cup {Unset}, password : Passwords \cup {Unset}]
UserFields == {"email", "hashed_password"}

\* A where argument: omitted (None) or a dict, its entries in insertion order.
NoWhere == [absent |-> TRUE, items |-> << >>]
Where(items) == [absent |-> FALSE, items |-> items]

Wheres ==
    { NoWhere,
      Where(<< >>),
      Where(<< <<"owner_id", "k1">> >>),
      Where(<< <<"owner_id", "k1">>, <<"title", "A">> >>),
      Where(<< <<"description", None>> >>),
      Where(<< <<"title", "A">> >>),
      Where(<< <<"title", "Z">> >>),
      Where(<< <<"model_dump", "k1">> >>),
      Where(<< <<"__name__", "Item">> >>),
      Where(<< <<"owner_id", "k1">>, <<"bogus", "k1">> >>) }

\* The filters passed along with an explicit offset and row cap
\* (test_select_with_limit_and_skip pages by owner).
PagedWheres ==
    { NoWhere,
      Where(<< <<"owner_id", "k1">> >>),
      Where(<< <<"owner_id", "k1">>, <<"title", "A">> >>),
      Where(<< <<"title", "Z">> >>) }

\* The filters passed along with an id to delete, which ignores them.
IdWheres ==
    { NoWhere,
      Where(<< <<"owner_id", "k1">> >>),
      Where(<< <<"owner_id", "k1">>, <<"bogus", "k1">> >>) }

(* ------------------------------- state -------------------------------- *)

VARIABLES
    store,      \* the table's committed rows, in scan order
    users,      \* the user table's committed rows, in scan order
    held,       \* the session's state of each entity object the caller holds,
                \* by the identity of its row
    active,     \* FALSE once a flush failed: the session awaits a rollback
    pre,        \* the state as the last call found it
    call,       \* the last call: the method and its arguments
    ret         \* what that call returned, or the error it raised

vars == <<store, users, held, active, pre, call, ret>>

\* The state the methods work on.
State(st, us, hd, act) ==
    [store |-> st, users |-> us, held |-> hd, active |-> act]

S == State(store, users, held, active)

(* --------------------------- the session ------------------------------ *)

Min(a, b) == IF a < b THEN a ELSE b

IdsOf(st) == { st[i].id : i \in 1..Len(st) }

\* The position of the row with identity id (0: no such row).
PosOf(st, id) ==
    IF \E i \in 1..Len(st) : st[i].id = id
    THEN CHOOSE i \in 1..Len(st) : st[i].id = id
    ELSE 0

RemoveAt(st, p) == SubSeq(st, 1, p - 1) \o SubSeq(st, p + 1, Len(st))

\* Outcomes of a call: the state it leaves and what it returns or raises.
Raise(s, err) == [s |-> s, ret |-> [kind |-> "error", err |-> err]]
Return(s, r) == [s |-> s, ret |-> r]

Ack == [kind |-> "ok"]
Absent == [kind |-> "none"]
AnEntity(row) == [kind |-> "entity", value |-> row]
Rows(rows) == [kind |-> "rows", value |-> rows]
ACount(n) == [kind |-> "count", value |-> n]

\* The session holds no object for the caller.
NoObjects == [h \in {} |-> None]

\* An object as a create, read, update or select hands it out: every
\* attribute loaded, nothing written.
Fresh == [loaded |-> Fields, pending |-> None]

\* expire_on_commit, and the expiry a rollback does: no attribute of any
\* object stays loaded, no write stays pending.
Expired(hd) == [h \in DOMAIN hd |-> [loaded |-> {}, pending |-> None]]

\* The objects of the rows ids, loaded by a get, a refresh or a query result:
\* the attributes the caller has not written are read from the table.
Loaded(hd, ids) ==
    [h \in DOMAIN hd |->
        IF h \in ids THEN [hd[h] EXCEPT !.loaded = Fields] ELSE hd[h]]

\* The objects of rows that are gone leave the session.
Restrict(hd, ids) == [h \in DOMAIN hd \cap ids |-> hd[h]]

\* An UPDATE of the primary key gives the row's object its new identity.
Rekey(hd, old, new) ==
    IF old = new \/ old \notin DOMAIN hd THEN hd
    ELSE [h \in (DOMAIN hd \ {old}) \cup {new} |->
             IF h = new THEN hd[old] ELSE hd[h]]

\* The table as the session's statements find it: autoflush has applied the
\* writes that are pending on the held objects.
View(s) ==
    [i \in 1..Len(s.store) |->
        LET r == s.store[i]
        IN IF r.id \in DOMAIN s.held /\ s.held[r.id].pending # None
           THEN [r EXCEPT !.title = s.held[r.id].pending]
           ELSE r]

\* session.commit(): the pending writes are stored, every object expires.
Commit(s) == [s EXCEPT !.store = View(s), !.held = Expired(s.held)]

\* A flush the table refuses: the transaction is rolled back, the pending
\* writes are lost with it, every object expires, and the session accepts no
\* statement until a rollback() that crud.py never calls.
Rollback(s) == [s EXCEPT !.held = Expired(s.held), !.active = FALSE]

\* What the __dict__ of the held object of row h holds: the attributes that
\* are loaded or written, with the values the object shows.
ObjDict(s, h) ==
    [f \in s.held[h].loaded |-> View(s)[PosOf(s.store, h)][f]]

\* getattr(self.model, key) == value: a column compared to the value gives a
\* SQL equality criterion; any other attribute of the class compared to the
\* value is a Python bool, which where() takes as the SQL constant true
\* (every row satisfies it) or false (no row does).
Criterion(key, value) ==
    IF key \in Fields
    THEN [kind |-> "eq", key |-> key, value |-> value]
    ELSE IF ClassAttr(key) = value
    THEN [kind |-> "true", key |-> key, value |-> value]
    ELSE [kind |-> "false", key |-> key, value |-> value]

\* The loop "for key, value in where.items(): query = query.where(...)":
\* the criteria in entry order, or the AttributeError getattr raises at the
\* first key the class has no attribute for.
RECURSIVE WhereClauses(_)
WhereClauses(items) ==
    IF items = << >> THEN [err |-> FALSE, criteria |-> << >>]
    ELSE LET key == items[1][1]
             value == items[1][2]
         IN IF key \notin Fields \cup ClassAttrs
            THEN [err |-> TRUE, criteria |-> << >>]
            ELSE LET rest == WhereClauses(Tail(items))
                 IN [err |-> rest.err,
                     criteria |-> <<Criterion(key, value)>> \o rest.criteria]

\* "if where is None: where = {}"
WhereOrEmpty(where) == IF where.absent THEN << >> ELSE where.items

\* Faulty variant: the criteria are OR'ed instead of AND'ed.
SatisfiesAny(row, criteria) ==
    \E i \in 1..Len(criteria) :
        \/ criteria[i].kind = "true"
        \/ /\ criteria[i].kind = "eq"
           /\ row[criteria[i].key] = criteria[i].value

\* A row satisfies the AND of the criteria.
Satisfies(row, criteria) ==
    \A i \in 1..Len(criteria) :
        \/ criteria[i].kind = "true"
        \/ /\ criteria[i].kind = "eq"
           /\ row[criteria[i].key] = criteria[i].value

\* The rows a query with these criteria scans, in store order.
RECURSIVE Matching(_, _)
Matching(st, criteria) ==
    IF st = << >> THEN << >>
    ELSE (IF Satisfies(Head(st), criteria) THEN <<Head(st)>> ELSE << >>)
         \o Matching(Tail(st), criteria)

RECURSIVE NotMatching(_, _)
NotMatching(st, criteria) ==
    IF st = << >> THEN << >>
    ELSE (IF Satisfies(Head(st), criteria) THEN << >> ELSE <<Head(st)>>)
         \o NotMatching(Tail(st), criteria)

\* Faulty variant: the row cap is taken as an end position (rows[skip:limit]).
OffsetLimitSlice(rows, skip, limit) ==
    SubSeq(rows, skip + 1, Min(Len(rows), limit))

\* query.offset(skip).limit(limit)
OffsetLimit(rows, skip, limit) ==
    SubSeq(rows, skip + 1, Min(Len(rows), skip + limit))

(* ----------------------------- CRUD methods --------------------------- *)

\* Faulty variant: the where loop is forgotten, every row is counted.
countAllRows(s, where) ==
    IF ~s.active THEN Raise(s, "PendingRollbackError")
    ELSE Return(s, ACount(Len(s.store)))

count(s, where) ==
    LET q == WhereClauses(WhereOrEmpty(where))
    IN IF q.err THEN Raise(s, "AttributeError")
       ELSE IF ~s.active THEN Raise(s, "PendingRollbackError")
       ELSE Return(s, ACount(Len(Matching(View(s), q.criteria))))

\* entity.model_dump(): the fields the object's __dict__ holds, the identity
\* included: every field of a new entity, the loaded and the written ones of
\* an object of the session.
model_dump(dict) == [f \in DOMAIN dict \cap Fields |-> dict[f]]

\* item.sqlmodel_update(item, update=dump): each field of item that dump
\* names takes dump's value, every other field is set to its own value.
sqlmodel_update(item, dump) ==
    [f \in DOMAIN item |-> IF f \in DOMAIN dump THEN dump[f] ELSE item[f]]

\* The store assigns the identity of a row inserted without one.
InsertedRow(entity, newid) ==
    IF entity.id = None THEN [entity EXCEPT !.id = newid] ELSE entity

\* Faulty variant: the entity is returned as passed, without the refresh.
createNoRefresh(s, entity, h, newid) ==
    IF ~s.active THEN Raise(s, "PendingRollbackError")
    ELSE IF h # None
    THEN LET c == Commit(s)
         IN Return([c EXCEPT !.held = Loaded(c.held, {h})],
                   AnEntity(c.store[PosOf(c.store, h)]))
    ELSE LET row == InsertedRow(entity, newid)
         IN IF row.id \in IdsOf(s.store)
            THEN Raise(Rollback(s), "IntegrityError")
            ELSE LET c == Commit(s)
                 IN Return([c EXCEPT !.store = Append(c.store, row)],
                           AnEntity(entity))

\* entity is a new object (h = None) or the object the session holds for the
\* stored row h. session.add stages an insert for a new object and nothing
\* for a held one; the commit stores the insert and whatever is pending; the
\* refresh loads the entity.
create(s, entity, h, newid) ==
    IF ~s.active THEN Raise(s, "PendingRollbackError")
    ELSE IF h # None
    THEN LET c == Commit(s)
         IN Return([c EXCEPT !.held = Loaded(c.held, {h})],
                   AnEntity(c.store[PosOf(c.store, h)]))
    ELSE LET row == InsertedRow(entity, newid)
         IN IF row.id \in IdsOf(s.store)
            THEN Raise(Rollback(s), "IntegrityError")
            ELSE LET c == Commit(s)
                 IN Return([c EXCEPT !.store = Append(c.store, row)],
                           AnEntity(row))

\* session.get(): the row's object, its expired attributes loaded.
read(s, id) ==
    IF ~s.active THEN Raise(s, "PendingRollbackError")
    ELSE IF PosOf(s.store, id) = 0 THEN Return(s, Absent)
    ELSE Return([s EXCEPT !.held = Loaded(s.held, {id})],
                AnEntity(View(s)[PosOf(s.store, id)]))

\* entity is a new object (h = None: its __dict__ is entity) or the object
\* the session holds for the stored row h, dumped after the read of id. The
\* flush rewrites the row as item, the primary key included; the table
\* refuses a key another row has.
update(s, id, entity, h) ==
    IF ~s.active THEN Raise(s, "PendingRollbackError")
    ELSE IF PosOf(s.store, id) = 0 THEN Raise(s, "AttributeError")
    ELSE LET p == PosOf(s.store, id)
             found == read(s, id).s
             dict == IF h = None THEN entity ELSE ObjDict(found, h)
             item == sqlmodel_update(View(found)[p], model_dump(dict))
         IN IF item.id # id /\ item.id \in IdsOf(s.store)
            THEN Raise(Rollback(s), "IntegrityError")
            ELSE LET c == Commit(found)
                 IN Return([c EXCEPT
                               !.store = [c.store EXCEPT ![p] = item],
                               !.held = Loaded(Rekey(c.held, id, item.id),
                                               {item.id})],
                           AnEntity(item))

\* Faulty variant: deleting by an id that has no row is acknowledged as a
\* success.
deleteMissingOk(s, id, where) ==
    IF id = None
    THEN LET q == WhereClauses(WhereOrEmpty(where))
         IN IF q.err THEN Raise(s, "AttributeError")
            ELSE IF ~s.active THEN Raise(s, "PendingRollbackError")
            ELSE LET c == Commit(s)
                     left == NotMatching(c.store, q.criteria)
                 IN Return([c EXCEPT !.store = left,
                                     !.held = Restrict(c.held, IdsOf(left))],
                           Ack)
    ELSE IF ~s.active THEN Raise(s, "PendingRollbackError")
    ELSE IF PosOf(s.store, id) = 0 THEN Return(s, Ack)
    ELSE LET c == Commit(s)
             left == RemoveAt(c.store, PosOf(c.store, id))
         IN Return([c EXCEPT !.store = left,
                             !.held = Restrict(c.held, IdsOf(left))], Ack)

\* Faulty variant: the mode is chosen by the filter: a non-empty filter is
\* applied even when an id is supplied.
deleteFilterFirst(s, id, where) ==
    IF id = None \/ WhereOrEmpty(where) # << >>
    THEN LET q == WhereClauses(WhereOrEmpty(where))
         IN IF q.err THEN Raise(s, "AttributeError")
            ELSE IF ~s.active THEN Raise(s, "PendingRollbackError")
            ELSE LET c == Commit(s)
                     left == NotMatching(c.store, q.criteria)
                 IN Return([c EXCEPT !.store = left,
                                     !.held = Restrict(c.held, IdsOf(left))],
                           Ack)
    ELSE IF ~s.active THEN Raise(s, "PendingRollbackError")
    ELSE IF PosOf(s.store, id) = 0 THEN Raise(s, "UnmappedInstanceError")
    ELSE LET c == Commit(s)
             left == RemoveAt(c.store, PosOf(c.store, id))
         IN Return([c EXCEPT !.store = left,
                             !.held = Restrict(c.held, IdsOf(left))], Ack)

delete(s, id, where) ==
    IF id = None
    THEN LET q == WhereClauses(WhereOrEmpty(where))
         IN IF q.err THEN Raise(s, "AttributeError")
            ELSE IF ~s.active THEN Raise(s, "PendingRollbackError")
            ELSE LET c == Commit(s)
                     left == NotMatching(c.store, q.criteria)
                 IN Return([c EXCEPT !.store = left,
                                     !.held = Restrict(c.held, IdsOf(left))],
                           Ack)
    ELSE IF ~s.active THEN Raise(s, "PendingRollbackError")
    ELSE IF PosOf(s.store, id) = 0 THEN Raise(s, "UnmappedInstanceError")
    ELSE LET c == Commit(s)
             left == RemoveAt(c.store, PosOf(c.store, id))
         IN Return([c EXCEPT !.store = left,
                             !.held = Restrict(c.held, IdsOf(left))], Ack)

\* Faulty variant: the result list is returned as it is, empty or not.
selectNoSentinel(s, where, skip, limit) ==
    LET q == WhereClauses(WhereOrEmpty(where))
    IN IF q.err THEN Raise(s, "AttributeError")
       ELSE IF ~s.active THEN Raise(s, "PendingRollbackError")
       ELSE LET results == OffsetLimit(Matching(View(s), q.criteria),
                                       skip, limit)
            IN Return([s EXCEPT !.held = Loaded(s.held, IdsOf(results))],
                      Rows(results))

\* The objects of the rows the query returns are loaded.
select(s, where, skip, limit) ==
    LET q == WhereClauses(WhereOrEmpty(where))
    IN IF q.err THEN Raise(s, "AttributeError")
       ELSE IF ~s.active THEN Raise(s, "PendingRollbackError")
       ELSE LET results == OffsetLimit(Matching(View(s), q.criteria),
                                       skip, limit)
            IN Return([s EXCEPT !.held = Loaded(s.held, IdsOf(results))],
                      IF results # << >> THEN Rows(results) ELSE Absent)

(* --------------------------- helper functions ------------------------- *)

get_password_hash(password) == <<"hashed", password>>
verify_password(password, hashed) == hashed = get_password_hash(password)

EmailsOf(us) == { us[i].email : i \in 1..Len(us) }

\* The user table refuses a second row with an e-mail address; p is the
\* position of the row being rewritten, 0 for an insert.
EmailTaken(us, email, p) ==
    \E i \in 1..Len(us) : i # p /\ us[i].email = email

create_user(s, user_create) ==
    LET db_obj == [email |-> user_create.email,
                   hashed_password |-> get_password_hash(user_create.password)]
    IN IF ~s.active THEN Raise(s, "PendingRollbackError")
       ELSE IF EmailTaken(s.users, db_obj.email, 0)
       THEN Raise(Rollback(s), "IntegrityError")
       ELSE Return([Commit(s) EXCEPT !.users = Append(s.users, db_obj)],
                   AnEntity(db_obj))

\* user_in.model_dump(exclude_unset=True): the fields the caller set.
model_dump_set(user_in) ==
    [f \in {g \in DOMAIN user_in : user_in[g] # Unset} |-> user_in[f]]

\* db_user is the session's object of the user row at position p.
update_user(s, p, user_in) ==
    LET user_data == model_dump_set(user_in)
        extra_data ==
            IF "password" \in DOMAIN user_data
            THEN [f \in {"hashed_password"} |->
                     get_password_hash(user_data["password"])]
            ELSE << >>
        value(f) == IF f \in DOMAIN extra_data THEN extra_data[f]
                    ELSE IF f \in DOMAIN user_data THEN user_data[f]
                    ELSE s.users[p][f]
        db_user == [f \in UserFields |-> value(f)]
    IN IF ~s.active THEN Raise(s, "PendingRollbackError")
       ELSE IF EmailTaken(s.users, db_user.email, p)
       THEN Raise(Rollback(s), "IntegrityError")
       ELSE Return([Commit(s) EXCEPT
                       !.users = [s.users EXCEPT ![p] = db_user]],
                   AnEntity(db_user))

get_user_by_email(s, email) ==
    IF ~s.active THEN Raise(s, "PendingRollbackError")
    ELSE IF email \notin EmailsOf(s.users) THEN Return(s, Absent)
    ELSE Return(s,
            AnEntity(s.users[CHOOSE i \in 1..Len(s.users) :
                           /\ s.users[i].email = email
                           /\ \A j \in 1..(i - 1) : s.users[j].email # email]))

authenticate(s, email, password) ==
    LET db_user == get_user_by_email(s, email)
    IN IF db_user.ret.kind # "entity" THEN db_user
       ELSE IF ~verify_password(password, db_user.ret.value.hashed_password)
       THEN Return(s, Absent)
       ELSE db_user

\* Item.model_validate(item_in, update={"owner_id": owner_id}) is a new Item
\* without identity; it is inserted as create inserts one.
create_item(s, item_in, owner_id, newid) ==
    LET db_item == [id |-> None, title |-> item_in.title,
                    description |-> item_in.description,
                    owner_id |-> owner_id]
    IN IF ~s.active THEN Raise(s, "PendingRollbackError")
       ELSE Return([Commit(s) EXCEPT
                       !.store = Append(View(s), InsertedRow(db_item, newid))],
                   AnEntity(InsertedRow(db_item, newid)))

(* ------------------------------- actions ------------------------------ *)

\* No call is in progress: the caller holds no result.
Idle == [op |-> "idle"]

Apply(c, out) ==
    /\ call = Idle
    /\ pre' = S
    /\ call' = c
    /\ store' = out.s.store
    /\ users' = out.s.users
    /\ held' = out.s.held
    /\ active' = out.s.active
    /\ ret' = out.ret

Count ==
    \E where \in Wheres :
        Apply([op |-> "count", where |-> where], count(S, where))

\* create called with a new object.
Create ==
    /\ Len(store) < MaxRows
    /\ \E entity \in Entities, newid \in Ids \ IdsOf(store) :
        Apply([op |-> "create", entity |-> entity, held |-> None],
              create(S, entity, None, newid))

\* create called with an object the caller holds (one that a create, read,
\* update or select returned); entity is what the object's __dict__ holds.
CreateHeld ==
    \E h \in DOMAIN held :
        Apply([op |-> "create", entity |-> ObjDict(S, h), held |-> h],
              create(S, ObjDict(S, h), h, h))

CreateItem ==
    /\ Len(store) < MaxRows
    /\ \E data \in EntityData, newid \in Ids \ IdsOf(store) :
        Apply([op |-> "create_item", item_in |-> ItemIn(data),
               owner_id |-> data.owner_id],
              create_item(S, ItemIn(data), data.owner_id, newid))

CreateUser ==
    \E user_create \in UserCreates :
        Apply([op |-> "create_user", user_create |-> user_create],
              create_user(S, user_create))

UpdateUser ==
    \E p \in 1..Len(users), user_in \in UserUpdates :
        Apply([op |-> "update_user", db_user |-> users[p],
               user_in |-> user_in],
              update_user(S, p, user_in))

GetUserByEmail ==
    \E email \in LookupEmails :
        Apply([op |-> "get_user_by_email", email |-> email],
              get_user_by_email(S, email))

Authenticate ==
    \E email \in LookupEmails, password \in Passwords :
        Apply([op |-> "authenticate", email |-> email,
               password |-> password],
              authenticate(S, email, password))

Read ==
    \E id \in Ids :
        Apply([op |-> "read", id |-> id], read(S, id))

\* update called with a new object
\* (test_update_object_with_none_field); entity is the object's attributes.
Update ==
    \E id \in Ids, built \in Entities :
      \E newid \in IF built.id = None THEN Ids \ IdsOf(store) ELSE {built.id} :
        LET entity == WithDefaultId(built, newid)
        IN Apply([op |-> "update", id |-> id, entity |-> entity,
                  held |-> None],
                 update(S, id, entity, None))

\* update called with an object the caller holds, of the row it updates
\* (test_update_object) or of another row.
UpdateHeld ==
    \E id \in Ids, h \in DOMAIN held :
        Apply([op |-> "update", id |-> id, entity |-> ObjDict(S, h),
               held |-> h],
              update(S, id, ObjDict(S, h), h))

Delete ==
    \E id \in Ids \cup {None} :
      \E where \in IF id = None THEN Wheres ELSE IdWheres :
        Apply([op |-> "delete", id |-> id, where |-> where],
              delete(S, id, where))

\* select called with an explicit offset and row cap.
Select ==
    \E where \in PagedWheres, skip \in 0..MaxSkip, limit \in 1..MaxLimit :
        Apply([op |-> "select", where |-> where, paged |-> TRUE,
               skip |-> skip, limit |-> limit],
              select(S, where, skip, limit))

\* select called without skip and limit: the parameters take their defaults.
SelectDefault ==
    \E where \in Wheres :
        Apply([op |-> "select", where |-> where, paged |-> FALSE],
              select(S, where, DefaultSkip, DefaultLimit))

\* The caller writes the title of an object it holds ("entity.title = ...",
\* test_update_object). The write is pending until a commit stores it; one
\* that restores the stored title leaves nothing to store. Writes on a
\* session that awaits a rollback are never flushed and are left out, as are
\* writes of the other fields.
Write ==
    /\ call = Idle
    /\ active
    /\ \E h \in DOMAIN held, title \in Titles :
        held' = [held EXCEPT ![h] =
                    [loaded |-> @.loaded \cup {"title"},
                     pending |-> IF title = store[PosOf(store, h)].title
                                 THEN None ELSE title]]
    /\ UNCHANGED <<store, users, active, call, ret>>
    /\ pre' = S'

\* The identities of the entity objects a call handed to the caller.
Returned ==
    IF call.op \notin {"create", "create_item", "read", "update", "select"}
    THEN {}
    ELSE IF ret.kind = "entity" THEN {ret.value.id} \cap IdsOf(store)
    ELSE IF ret.kind = "rows" THEN IdsOf(ret.value)
    ELSE {}

\* The caller has taken the result and is ready for its next call.
Finish ==
    /\ UNCHANGED <<store, users, active>>
    /\ call' = Idle
    /\ ret' = Ack
    /\ pre' = S'

\* The caller lets the result go.
Resume ==
    /\ call # Idle
    /\ held' = held
    /\ Finish

\* The caller holds on to an entity object the call returned.
Keep ==
    /\ call # Idle
    /\ Cardinality(DOMAIN held) < MaxHeld
    /\ \E h \in Returned \ DOMAIN held :
        held' = [g \in DOMAIN held \cup {h} |->
                    IF g = h THEN Fresh ELSE held[g]]
    /\ Finish

\* The caller lets go of an object it has written nothing on since the last
\* commit.
Forget ==
    /\ call = Idle
    /\ \E h \in DOMAIN held :
        /\ held[h].pending = None
        /\ held' = [g \in DOMAIN held \ {h} |-> held[g]]
    /\ UNCHANGED <<store, users, active, call, ret>>
    /\ pre' = S'

Init ==
    /\ store = << >>
    /\ users = << >>
    /\ held = NoObjects
    /\ active = TRUE
    /\ pre = State(<< >>, << >>, NoObjects, TRUE)
    /\ call = Idle
    /\ ret = Ack

Next ==
    \/ Count
    \/ Create
    \/ CreateHeld
    \/ CreateItem
    \/ CreateUser
    \/ UpdateUser
    \/ GetUserByEmail
    \/ Authenticate
    \/ Read
    \/ Update
    \/ UpdateHeld
    \/ Delete
    \/ Select
    \/ SelectDefault
    \/ Write
    \/ Resume
    \/ Keep
    \/ Forget

Spec == Init /\ [][Next]_vars

(* ------------------------- what the claims say ------------------------ *)

\* The rows as the session shows them now, and as the last call found them.
Now == View(S)
Before == View(pre)

\* The entries of the filter a call was given (none when it was omitted).
EntriesOf(c) == IF c.where.absent THEN << >> ELSE c.where.items

\* A row matches every entry of a filter: it has the field and the value.
MatchesEvery(row, entries) ==
    \A i \in 1..Len(entries) :
        /\ entries[i][1] \in DOMAIN row
        /\ row[entries[i][1]] = entries[i][2]

\* The rows of st that match every entry, in store order, and the others.
Matched(st, entries) ==
    LET Test(row) == MatchesEvery(row, entries) IN SelectSeq(st, Test)
Unmatched(st, entries) ==
    LET Test(row) == ~MatchesEvery(row, entries) IN SelectSeq(st, Test)

WithoutId(st, id) ==
    LET Test(row) == row.id # id IN SelectSeq(st, Test)

KeysAreFields(entries) == \A i \in 1..Len(entries) : entries[i][1] \in Fields

\* Some key names no field of the entity.
HasNonFieldKey(entries) ==
    \E i \in 1..Len(entries) : entries[i][1] \notin Fields

\* The rows at positions skip .. skip+limit-1 (counted from 0) of rows.
Window(rows, skip, limit) ==
    LET last == Min(Len(rows), skip + limit)
    IN [i \in 1..(IF last > skip THEN last - skip ELSE 0) |-> rows[skip + i]]

\* The offset and row cap select ran with: the given ones or the defaults.
SkipOf(c) == IF c.paged THEN c.skip ELSE 0
LimitOf(c) == IF c.paged THEN c.limit ELSE 100

\* The rows a select result holds: the absent marker holds none.
RowsOf(r) == IF r.kind = "rows" THEN r.value ELSE << >>

\* The entity a create or an update was given, as its attributes read: a new
\* object's own values, a held object's row as the session showed it.
EntityOf(c) ==
    IF c.held = None THEN c.entity
    ELSE Before[PosOf(pre.store, c.held)]

\* The call found the session usable.
preActive == pre.active

(* -------------------------------- claims ------------------------------ *)

\* C1: an update(id, e) of an existing row that returns has replaced the row
\* field by field: for every data field of e's field set the row holds e's
\* value, unset (None) values included, and keeps nothing of its previous
\* value (the identity field is C2's subject). It holds of every update
\* given a new entity; an update given an object of the session whose
\* attributes a commit has expired writes only what the object has loaded,
\* and the row keeps the rest.
C1_UpdateReplacesEveryField ==
    (call.op = "update" /\ ret.kind = "entity") =>
        \A f \in DataFields :
            Now[PosOf(pre.store, call.id)][f] = EntityOf(call)[f]

\* C1 witness: an update given an object of the session whose description
\* is unset returned and left the row its description.
C1_Witness ==
    /\ call.op = "update"
    /\ call.held # None
    /\ ret.kind = "entity"
    /\ call.id \in IdsOf(pre.store)
    /\ EntityOf(call).description = None
    /\ Before[PosOf(pre.store, call.id)].description = "d"
    /\ store[PosOf(pre.store, call.id)].description = "d"

\* C2: the identity of a stored row is immutable: an update(id, e) of an
\* existing row returns an entity whose identity is id and leaves the set of
\* identities in the store as it was, whatever e's identity field holds.
C2_IdentityImmutable ==
    (/\ call.op = "update"
     /\ call.id \in IdsOf(pre.store)
     /\ ret.kind = "entity") =>
        /\ ret.value.id = call.id
        /\ IdsOf(store) = IdsOf(pre.store)

\* C3: update(id, e) and delete(id) with an id that has no row end in an
\* error, never in the acknowledgement or an entity, and leave the store's
\* rows as they were.
C3_MissingIdIsAnError ==
    (/\ call.op \in {"update", "delete"}
     /\ call.id # None
     /\ call.id \notin IdsOf(pre.store)) =>
        /\ ret.kind = "error"
        /\ store = pre.store
        /\ Now = Before

\* C3 witness: a delete by an id that has no row, on a usable session over a
\* store that holds other rows, raised.
C3_Witness ==
    /\ call.op = "delete"
    /\ call.id # None
    /\ call.id \notin IdsOf(pre.store)
    /\ pre.store # << >>
    /\ preActive
    /\ ret.kind = "error"

C5_DeleteById ==
    (/\ call.op = "delete"
     /\ call.id # None
     /\ call.id \in IdsOf(pre.store)
     /\ preActive) =>
        /\ ret = Ack
        /\ Now = WithoutId(Before, call.id)
        /\ store = Now
        /\ Len(store) = Len(pre.store) - 1
        /\ read(S, call.id).ret = Absent

\* C5 witness: a delete by id that was also given a filter matching another
\* row removed the one row and left the other.
C5_Witness ==
    /\ call.op = "delete"
    /\ call.id \in IdsOf(pre.store)
    /\ EntriesOf(call) = << <<"owner_id", "k1">> >>
    /\ ret = Ack
    /\ \E i \in 1..Len(store) : store[i].owner_id = "k1"
    /\ Len(store) = Len(pre.store) - 1

CountNotDecreased ==
    \A w \in Wheres :
        (/\ count(pre, w).ret.kind = "count"
         /\ count(S, w).ret.kind = "count") =>
            count(S, w).ret.value >= count(pre, w).ret.value

C9_CreateCommitsNewRow ==
    (call.op = "create" /\ ret.kind = "entity") =>
        /\ ret.value.id # None
        /\ \A f \in DataFields : ret.value[f] = EntityOf(call)[f]
        /\ read(S, ret.value.id).ret = AnEntity(ret.value)
        /\ store = Append(Before, ret.value)

\* C9: a create that returns yields the committed row: the returned identity
\* is set even when the entity's was unset, the data fields are the
\* entity's, and a read of that identity returns that row. Given a new
\* object it has appended exactly that row to the store; given an object the
\* session holds for a stored row it has added no row and returns that row,
\* with the rows as the session showed them before. A create of a new object
\* without identity on a usable session always returns.
C9_Create ==
    call.op = "create" =>
        /\ ret.kind = "entity" =>
            /\ ret.value.id # None
            /\ \A f \in DataFields : ret.value[f] = EntityOf(call)[f]
            /\ read(S, ret.value.id).ret = AnEntity(ret.value)
            /\ store = Now
            /\ call.held = None => store = Append(Before, ret.value)
            /\ call.held # None =>
                /\ store = Before
                /\ ret.value = store[PosOf(store, call.held)]
        /\ (preActive /\ call.held = None /\ call.entity.id = None)
            => ret.kind = "entity"

\* C9 witness: an entity without identity was created in a non-empty store.
C9_Witness ==
    /\ call.op = "create"
    /\ call.held = None
    /\ call.entity.id = None
    /\ pre.store # << >>
    /\ ret.kind = "entity"
    /\ ret.value.id \in Ids

\* C10: a filter key that names no field of the entity is never silently
\* ignored: every count, select or delete given a filter with such a key
\* raises and leaves the store unchanged, a delete given an id included.
C10_NonFieldKeyAlwaysRaises ==
    (/\ call.op \in {"count", "select", "delete"}
     /\ HasNonFieldKey(EntriesOf(call))) =>
        /\ ret.kind = "error"
        /\ store = pre.store

\* C10 witness: a delete without an id whose only filter key names no field
\* returned the acknowledgement and removed every row.
C10_Witness ==
    /\ call.op = "delete"
    /\ call.id = None
    /\ EntriesOf(call) = << <<"__name__", "Item">> >>
    /\ pre.store # << >>
    /\ ret = Ack
    /\ store = << >>

=============================================================================
